---- MODULE Spec2Model ----
(***************************************************************************)
(* A model of the book acquisition pipeline of kindly-sourced-paper:       *)
(* book_downloader.py (query planning, catalog search, ranking, format     *)
(* selection, mirror resolution, download), of its drivers main.py and     *)
(* app.py, and of logger.py.  Strings are TLA+ strings handled character   *)
(* by character.                                                           *)
(***************************************************************************)
EXTENDS Integers, Sequences, FiniteSets, TLC

(***************************************************************************)
(* Python string primitives.                                               *)
(***************************************************************************)
UPPER == "ABCDEFGHIJKLMNOPQRSTUVWXYZ"
LOWER == "abcdefghijklmnopqrstuvwxyz"
DIGITS == "0123456789"

Ch(s, i) == SubSeq(s, i, i)

\* the element of a one-element set; used with {e(x) : x \in {v}} to compute
\* an intermediate value v once
The(S) == CHOOSE x \in S : TRUE

Chars(s) == {Ch(s, i) : i \in 1..Len(s)}

UpperChars == Chars(UPPER)
LowerChars == Chars(LOWER)
DigitChars == Chars(DIGITS)
WordChars == UpperChars \cup LowerChars \cup DigitChars \cup {"_"}
SpaceChars == {" ", "\t", "\n"}

\* str.lower for one character
LowerOf ==
    [c \in UpperChars |->
        Ch(LOWER, CHOOSE i \in 1..Len(UPPER) : Ch(UPPER, i) = c)]

\* str.isspace for one character
IsSpace(c) == c \in SpaceChars

\* the regular expression class \d
IsDigit(c) == c \in DigitChars

\* the regular expression class \w
IsWord(c) == c \in WordChars

LowerCh(c) == IF c \in UpperChars THEN LowerOf[c] ELSE c

RECURSIVE str_lower(_)
str_lower(s) == IF s = "" THEN "" ELSE LowerCh(Head(s)) \o str_lower(Tail(s))

RECURSIVE str_lstrip(_)
str_lstrip(s) == IF s # "" /\ IsSpace(Head(s)) THEN str_lstrip(Tail(s)) ELSE s

RECURSIVE str_rstrip(_)
str_rstrip(s) ==
    IF s # "" /\ IsSpace(Ch(s, Len(s)))
    THEN str_rstrip(SubSeq(s, 1, Len(s) - 1))
    ELSE s

str_strip(s) == The({str_rstrip(t) : t \in {str_lstrip(s)}})

\* Python's  p in s  for strings
str_in(p, s) ==
    \E i \in 1..(Len(s) - Len(p) + 1) : SubSeq(s, i, i + Len(p) - 1) = p

str_startswith(s, p) == Len(p) <= Len(s) /\ SubSeq(s, 1, Len(p)) = p

\* first index of character set cs in s at or after i, or 0
FindFrom(s, i, cs) ==
    IF \E k \in i..Len(s) : Ch(s, k) \in cs
    THEN CHOOSE k \in i..Len(s) :
            Ch(s, k) \in cs /\ \A m \in i..(k - 1) : Ch(s, m) \notin cs
    ELSE 0

Range(f) == {f[i] : i \in DOMAIN f}

(***************************************************************************)
(* clean_title (book_downloader.py:61-74).  The two regular expressions    *)
(* are matched the way re.sub does: leftmost match first, scanning goes on *)
(* after the match, word boundaries are read from the original string.     *)
(***************************************************************************)
\* \b at position i of s (between s[i-1] and s[i])
WordBoundary(s, i) ==
    LET before == i > 1 /\ i - 1 <= Len(s) /\ IsWord(Ch(s, i - 1))
        after == i >= 1 /\ i <= Len(s) /\ IsWord(Ch(s, i))
    IN before # after

\* length of the longest run of characters satisfying the class, from i
RECURSIVE DigitRun(_, _)
DigitRun(s, i) ==
    IF i <= Len(s) /\ IsDigit(Ch(s, i)) THEN 1 + DigitRun(s, i + 1) ELSE 0

RECURSIVE SpaceRun(_, _)
SpaceRun(s, i) ==
    IF i <= Len(s) /\ IsSpace(Ch(s, i)) THEN 1 + SpaceRun(s, i + 1) ELSE 0

\* r'\b\d+(st|nd|rd|th)\s+edition\b', IGNORECASE: index of the last character
\* of the match that starts at i, or 0 when there is none
EditionMatchEnd(s, i) ==
    LET d == DigitRun(s, i)
        suf == i + d
        w == SpaceRun(s, suf + 2)
        word == suf + 2 + w
        last == word + 6
    IN IF /\ WordBoundary(s, i)
          /\ d >= 1
          /\ suf + 1 <= Len(s)
          /\ str_lower(SubSeq(s, suf, suf + 1)) \in {"st", "nd", "rd", "th"}
          /\ w >= 1
          /\ last <= Len(s)
          /\ str_lower(SubSeq(s, word, last)) = "edition"
          /\ WordBoundary(s, last + 1)
       THEN last
       ELSE 0

\* r'\s*[\(\[].*?[\)\]]': index of the last character of the match that
\* starts at i, or 0 when there is none
BracketMatchEnd(s, i) ==
    LET open == i + SpaceRun(s, i)
        close == FindFrom(s, open + 1, {")", "]"})
    IN IF /\ open <= Len(s)
          /\ Ch(s, open) \in {"(", "["}
          /\ close > 0
          /\ \A m \in (open + 1)..(close - 1) : Ch(s, m) # "\n"
       THEN close
       ELSE 0

RECURSIVE SubEdition(_, _)
SubEdition(s, pos) ==
    IF pos > Len(s) THEN ""
    ELSE IF EditionMatchEnd(s, pos) > 0
         THEN SubEdition(s, EditionMatchEnd(s, pos) + 1)
         ELSE Ch(s, pos) \o SubEdition(s, pos + 1)

RECURSIVE SubBracket(_, _)
SubBracket(s, pos) ==
    IF pos > Len(s) THEN ""
    ELSE IF BracketMatchEnd(s, pos) > 0
         THEN SubBracket(s, BracketMatchEnd(s, pos) + 1)
         ELSE Ch(s, pos) \o SubBracket(s, pos + 1)

\* re.sub(r'\s+', ' ', s)
RECURSIVE CollapseSpaces(_, _)
CollapseSpaces(s, pos) ==
    IF pos > Len(s) THEN ""
    ELSE IF IsSpace(Ch(s, pos))
         THEN " " \o CollapseSpaces(s, pos + SpaceRun(s, pos))
         ELSE Ch(s, pos) \o CollapseSpaces(s, pos + 1)

\* title.split(':')[0]
BeforeColon(s) ==
    LET k == FindFrom(s, 1, {":"})
    IN IF k = 0 THEN s ELSE SubSeq(s, 1, k - 1)

\* the four steps of clean_title, each applied to the result of the one before
clean_title(title) ==
    The({str_strip(CollapseSpaces(t3, 1)) :
            t3 \in {SubBracket(t2, 1) :
                t2 \in {SubEdition(t1, 1) :
                    t1 \in {BeforeColon(title)}}}})

(***************************************************************************)
(* closest_match and order_results_by_closest_match                        *)
(* (book_downloader.py:224-234).  difflib.SequenceMatcher(None, a, b)      *)
(* .ratio() is 2*M/T: M the total size of the matching blocks found by     *)
(* splitting around the longest common block (the one starting earliest    *)
(* in a, then earliest in b), T the sum of the lengths.  A score is kept   *)
(* as the exact fraction <<2*M, T>>.                                       *)
(***************************************************************************)
Max(S) == CHOOSE x \in S : \A y \in S : y <= x
Min(S) == CHOOSE x \in S : \A y \in S : x <= y

RECURSIVE CommonLen(_, _, _, _, _, _)
CommonLen(a, b, i, j, ahi, bhi) ==
    IF i <= ahi /\ j <= bhi /\ Ch(a, i) = Ch(b, j)
    THEN 1 + CommonLen(a, b, i + 1, j + 1, ahi, bhi)
    ELSE 0

\* SequenceMatcher.find_longest_match on a[alo..ahi], b[blo..bhi]: <<i, j, k>>
find_longest_match(a, b, alo, ahi, blo, bhi) ==
    LET k == Max({0} \cup {CommonLen(a, b, i, j, ahi, bhi) :
                            i \in alo..ahi, j \in blo..bhi})
    IN IF k = 0 THEN <<alo, blo, 0>>
       ELSE LET i == Min({x \in alo..ahi : \E y \in blo..bhi :
                              CommonLen(a, b, x, y, ahi, bhi) = k})
                j == Min({y \in blo..bhi :
                              CommonLen(a, b, i, y, ahi, bhi) = k})
            IN <<i, j, k>>

\* SequenceMatcher.get_matching_blocks: the total size of the blocks
RECURSIVE MatchTotal(_, _, _, _, _, _)
MatchTotal(a, b, alo, ahi, blo, bhi) ==
    IF alo > ahi \/ blo > bhi THEN 0
    ELSE LET m == find_longest_match(a, b, alo, ahi, blo, bhi)
         IN IF m[3] = 0 THEN 0
            ELSE m[3] + MatchTotal(a, b, alo, m[1] - 1, blo, m[2] - 1)
                      + MatchTotal(a, b, m[1] + m[3], ahi, m[2] + m[3], bhi)

\* SequenceMatcher(None, a, b).ratio()
ratio(a, b) ==
    IF Len(a) + Len(b) = 0 THEN <<1, 1>>
    ELSE <<2 * MatchTotal(a, b, 1, Len(a), 1, Len(b)), Len(a) + Len(b)>>

closest_match(real_title, candidate_title) ==
    The({ratio(a, b) : a \in {str_lower(real_title)},
                       b \in {str_lower(candidate_title)}})

\* a comparison that also puts a row before the rows of equal score
ScoreLessOrEqual(x, y) == x[1] * y[2] <= y[1] * x[2]

\* x < y for two scores
ScoreLess(x, y) == x[1] * y[2] < y[1] * x[2]

\* sorted(...) is stable: a row goes after every row already placed whose
\* score is at least its own
RECURSIVE SortedInsert(_, _, _)
SortedInsert(real_title, placed, row) ==
    IF placed = <<>> THEN <<row>>
    ELSE IF ScoreLess(closest_match(real_title, Head(placed).title),
                      closest_match(real_title, row.title))
         THEN <<row>> \o placed
         ELSE <<Head(placed)>> \o SortedInsert(real_title, Tail(placed), row)

RECURSIVE SortFrom(_, _, _)
SortFrom(real_title, placed, rest) ==
    IF rest = <<>> THEN placed
    ELSE SortFrom(real_title, SortedInsert(real_title, placed, Head(rest)),
                  Tail(rest))

order_results_by_closest_match(real_title, results) ==
    SortFrom(real_title, <<>>, results)

(***************************************************************************)
(* make_absolute_url (book_downloader.py:236-245)                          *)
(***************************************************************************)
LIBGEN_BASE_URL == "https://libgen.li"

make_absolute_url(url) ==
    IF str_startswith(url, "http") THEN url
    ELSE IF str_startswith(url, "/") THEN LIBGEN_BASE_URL \o url
    ELSE LIBGEN_BASE_URL \o "/" \o url

(***************************************************************************)
(* The file name of download_book (book_downloader.py:322-345).            *)
(***************************************************************************)
\* index of the first occurrence of p in s at or after i, or 0
FindStr(s, i, p) ==
    IF \E k \in i..(Len(s) - Len(p) + 1) : SubSeq(s, k, k + Len(p) - 1) = p
    THEN Min({k \in i..(Len(s) - Len(p) + 1) : SubSeq(s, k, k + Len(p) - 1) = p})
    ELSE 0

\* index of the last occurrence of character c in s, or 0
RFind(s, c) ==
    IF \E k \in 1..Len(s) : Ch(s, k) = c
    THEN Max({k \in 1..Len(s) : Ch(s, k) = c})
    ELSE 0

\* s.split(sep)[1], for s that contains sep
SplitSecond(s, sep) ==
    LET first == FindStr(s, 1, sep)
        from == first + Len(sep)
        next == FindStr(s, from, sep)
    IN IF next = 0 THEN SubSeq(s, from, Len(s)) ELSE SubSeq(s, from, next - 1)

RECURSIVE StripQuotesLeft(_)
StripQuotesLeft(s) ==
    IF s # "" /\ Head(s) = "\"" THEN StripQuotesLeft(Tail(s)) ELSE s

RECURSIVE StripQuotesRight(_)
StripQuotesRight(s) ==
    IF s # "" /\ Ch(s, Len(s)) = "\""
    THEN StripQuotesRight(SubSeq(s, 1, Len(s) - 1))
    ELSE s

\* s.strip('"')
StripQuotes(s) == The({StripQuotesRight(t) : t \in {StripQuotesLeft(s)}})

\* s up to, not including, the first character of cs
UpTo(s, cs) ==
    LET k == FindFrom(s, 1, cs)
    IN IF k = 0 THEN s ELSE SubSeq(s, 1, k - 1)

SchemeChars == UpperChars \cup LowerChars \cup DigitChars \cup {"+", "-", "."}

IsSchemeChar(c) == c \in SchemeChars

\* urlparse(url).path: fragment and query cut off, then scheme and network
\* location, then the parameters of the last path segment
CutScheme(u) ==
    LET colon == FindFrom(u, 1, {":"})
    IN IF /\ colon > 1
          /\ Ch(u, 1) \in UpperChars \cup LowerChars
          /\ \A k \in 1..(colon - 1) : IsSchemeChar(Ch(u, k))
       THEN SubSeq(u, colon + 1, Len(u))
       ELSE u

CutNetloc(u) ==
    IF str_startswith(u, "//")
    THEN LET slash == FindFrom(u, 3, {"/"})
         IN IF slash = 0 THEN "" ELSE SubSeq(u, slash, Len(u))
    ELSE u

CutParams(u) ==
    LET semi == FindFrom(u, RFind(u, "/") + 1, {";"})
    IN IF semi = 0 THEN u ELSE SubSeq(u, 1, semi - 1)

UrlPath(url) ==
    The({CutParams(u3) :
            u3 \in {CutNetloc(u2) :
                u2 \in {CutScheme(u1) :
                    u1 \in {UpTo(u0, {"?"}) : u0 \in {UpTo(url, {"#"})}}}}})

\* os.path.basename
basename(path) == The({SubSeq(p, RFind(p, "/") + 1, Len(p)) : p \in {path}})

\* os.path.splitext(name)[1]: from the last dot of the last path segment,
\* unless only dots come before it in that segment
splitext_ext(name) ==
    LET sep == RFind(name, "/")
        dot == RFind(name, ".")
    IN IF dot > sep /\ \E k \in (sep + 1)..(dot - 1) : Ch(name, k) # "."
       THEN SubSeq(name, dot, Len(name))
       ELSE ""

AllowedChars ==
    UpperChars \cup LowerChars \cup DigitChars \cup {".", "-", "_", " "}

\* a character class without the space
IsAllowedCharNoSpace(c) == c \in AllowedChars \ {" "}

IsAllowedChar(c) == c \in AllowedChars

\* a name that is written as resolved
sanitize_nothing(s) == s

\* re.sub(r'[^a-zA-Z0-9.\-_ ]', '_', filename)
RECURSIVE sanitize(_)
sanitize(s) ==
    IF s = "" THEN ""
    ELSE (IF IsAllowedChar(Head(s)) THEN Head(s) ELSE "_") \o sanitize(Tail(s))

\* response.headers as far as download_book reads it: <<>> when there is
\* no Content-Disposition header, <<value>> when there is one
NoHeader == <<>>

\* a download that does not read the header
header_filename_unread(headers) == ""

\* book_downloader.py:323-327
header_filename(headers) ==
    IF headers # <<>> /\ str_in("filename=", headers[1])
    THEN StripQuotes(SplitSecond(headers[1], "filename="))
    ELSE ""

\* book_downloader.py:322-340: the name before it is sanitized; now is the
\* text of int(time.time())
resolved_filename(book_url, headers, now) ==
    The({IF splitext_ext(f3) = "" THEN f3 \o ".pdf" ELSE f3 :
        f3 \in {IF f2 = "" THEN "book_" \o now \o ".pdf" ELSE f2 :
            f2 \in {IF f1 = "" THEN basename(UrlPath(book_url)) ELSE f1 :
                f1 \in {header_filename(headers)}}}})

\* book_downloader.py:322-344
download_filename(book_url, headers, now) ==
    The({str_strip(f5) :
        f5 \in {sanitize(f4) :
            f4 \in {resolved_filename(book_url, headers, now)}}})

\* os.path.join(download_dir, filename)
path_join(dir, name) ==
    IF str_startswith(name, "/") THEN name
    ELSE IF dir = "" \/ Ch(dir, Len(dir)) = "/" THEN dir \o name
    ELSE dir \o "/" \o name

(***************************************************************************)
(* Bounds and the inputs the checks range over.                            *)
(***************************************************************************)
\* most table rows in one search response
MaxRows == 2

\* book requests: title, author, isbn as search_and_download_book gets them
\* (main.py:58 and app.py:296 pass all three, app.py:385 the title only)
Requests ==
    { [title |-> "Ab (x): c", author |-> "x", isbn |-> "9"],
      [title |-> "ab", author |-> "", isbn |-> ""],
      [title |-> "ab", author |-> "y", isbn |-> ""],
      [title |-> "ab", author |-> "", isbn |-> "9"] }

\* preferred_formats: the callers' list, the default, and two others
PreferredLists ==
    { <<"epub">>, <<"epub", "pdf", "mobi">>, <<"azw">>, <<"EPUB">> }

\* the calls of search_and_download_book: the callers pass ['epub']
\* (main.py:58, app.py:296, 385); the request with every field is also
\* tried with the other lists
Calls ==
    {c \in Requests \X PreferredLists :
        c[2] = <<"epub">> \/ (c[1].isbn # "" /\ c[1].author # "")}

\* <tr> elements of a search response: the number of <td> cells, the text
\* of the <b> and of the first <a> of the title cell (<<>> when absent),
\* the texts of cells 1, 6 and 7, and the href of each <a href> of cell 8
RawRows ==
    { [cells |-> 9, b |-> <<"ab">>, a |-> <<"zz">>, author |-> "x",
       size |-> "1 MB", ext |-> "epub",
       links |-> <<"/ads.php?md5=1", "http://m/2", "m3">>],
      [cells |-> 9, b |-> <<>>, a |-> <<"abc">>, author |-> "y",
       size |-> "2 MB", ext |-> "PDF", links |-> <<"", "get.php?md5=2">>],
      [cells |-> 10, b |-> <<>>, a |-> <<>>, author |-> "",
       size |-> "3 MB", ext |-> "azw3", links |-> <<"/ads.php?md5=3">>],
      [cells |-> 9, b |-> <<"Ab">>, a |-> <<>>, author |-> "x",
       size |-> "4 MB", ext |-> "azw", links |-> <<>>],
      [cells |-> 3, b |-> <<>>, a |-> <<>>, author |-> "",
       size |-> "", ext |-> "", links |-> <<>>] }

RECURSIVE SeqsUpTo(_, _)
SeqsUpTo(S, n) ==
    IF n = 0 THEN {<<>>}
    ELSE LET shorter == SeqsUpTo(S, n - 1)
         IN shorter \cup {Append(q, x) : q \in shorter, x \in S}

\* bodies of a 2xx search response: no #tablelibgen, or its <tr> elements,
\* each of them another row of RawRows
SearchBodies ==
    {[table |-> FALSE, rows |-> <<>>]}
        \cup {[table |-> TRUE, rows |-> rs] :
                rs \in {q \in SeqsUpTo(RawRows, MaxRows) :
                            \A i, j \in 1..Len(q) : q[i] = q[j] => i = j}}

\* href of the <a> with text GET on a mirror page
GetHrefs == {"get.php?md5=1&key=K", "http://cdn.x/f/b.epub"}

\* Content-Disposition of a download response
DownloadHeaders == {NoHeader}

\* int(time.time()) at a download
Clock == {"17"}

download_dir == "downloads"

(***************************************************************************)
(* search_and_download_book and hunt_for_book: the pure parts.             *)
(***************************************************************************)
\* a planner without the two cleaned-title queries
search_queries_uncleaned(title, author, isbn) ==
    (IF isbn # "" THEN <<isbn>> ELSE <<>>)
        \o (IF title # "" /\ author # ""
            THEN <<str_strip(title \o " " \o author)>> ELSE <<>>)
        \o <<title>>

\* a planner that puts the raw title before the ISBN
search_queries_title_first(title, author, isbn) ==
    <<title>>
        \o (IF isbn # "" THEN <<isbn>> ELSE <<>>)
        \o (IF title # "" /\ author # ""
            THEN <<str_strip(title \o " " \o author)>> ELSE <<>>)
        \o <<clean_title(title) \o " " \o author>>
        \o <<clean_title(title)>>

\* a planner that builds the title-and-author query without looking at the
\* author
search_queries_author_always(title, author, isbn) ==
    (IF isbn # "" THEN <<isbn>> ELSE <<>>)
        \o (IF title # ""
            THEN <<str_strip(title \o " " \o author)>> ELSE <<>>)
        \o <<title>>
        \o <<clean_title(title) \o " " \o author>>
        \o <<clean_title(title)>>

\* book_downloader.py:41-50
search_queries(title, author, isbn) ==
    (IF isbn # "" THEN <<isbn>> ELSE <<>>)
        \o (IF title # "" /\ author # ""
            THEN <<str_strip(title \o " " \o author)>> ELSE <<>>)
        \o <<title>>
        \o <<clean_title(title) \o " " \o author>>
        \o <<clean_title(title)>>

\* book_downloader.py:140-145
row_title(raw) ==
    IF raw.b # <<>> THEN raw.b[1]
    ELSE IF raw.a # <<>> THEN raw.a[1]
    ELSE "Unknown Title"

\* a parse that gives up at the first row with fewer than 9 cells
RECURSIVE parse_rows_until_short(_)
parse_rows_until_short(raws) ==
    IF raws = <<>> THEN <<>>
    ELSE IF Head(raws).cells < 9 THEN <<>>
    ELSE <<[title |-> row_title(Head(raws)),
            author |-> Head(raws).author,
            size |-> Head(raws).size,
            file_format |-> str_lower(Head(raws).ext),
            mirrors |-> Head(raws).links]>>
            \o parse_rows_until_short(Tail(raws))

\* book_downloader.py:112-159: rows with fewer than 9 cells are passed over
RECURSIVE parse_rows(_)
parse_rows(raws) ==
    IF raws = <<>> THEN <<>>
    ELSE IF Head(raws).cells < 9 THEN parse_rows(Tail(raws))
    ELSE <<[title |-> row_title(Head(raws)),
            author |-> Head(raws).author,
            size |-> Head(raws).size,
            file_format |-> str_lower(Head(raws).ext),
            mirrors |-> Head(raws).links]>> \o parse_rows(Tail(raws))

\* book_downloader.py:95-106: no table or no <tr> returns None before
\* parsing, which leaves no result rows either
all_results(body) == IF body.table THEN parse_rows(body.rows) ELSE <<>>

\* a flag that is never set
have_desired_format_never(results, preferred) == FALSE

\* a flag that is set whenever a format was asked for
have_desired_format_asked(results, preferred) == preferred # <<>>

\* book_downloader.py:168-172
have_desired_format_of(results, preferred) ==
    \E i \in 1..Len(results) : results[i].file_format \in Range(preferred)

\* book_downloader.py:186-191
found_format(file_format, preferred) ==
    \E k \in 1..Len(preferred) : str_in(str_lower(preferred[k]), file_format)

\* a resolver whose recursive call passes the cursor on unchanged
first_mirror_same(links, cursor) ==
    IF \E k \in Max({1, cursor - 1})..Len(links) : links[k] # ""
    THEN Min({k \in Max({1, cursor - 1})..Len(links) : links[k] # ""})
    ELSE 0

\* extract_download_link without its page fetch (book_downloader.py:254-266):
\* the first link at or after cursor whose href is not empty, 0 when the
\* links are exhausted.  Links are counted from 1 here, from 0 in the code.
first_mirror(links, cursor) ==
    IF \E k \in cursor..Len(links) : links[k] # ""
    THEN Min({k \in cursor..Len(links) : links[k] # ""})
    ELSE 0

\* the cursor hunt_for_book hands to extract_download_link on every call
\* (cursor=0 at book_downloader.py:200; the first link is 1 here)
resolve_from == 1

\* a result that reports the mirror page instead of the resolved link
hunt_result_mirror_url(row, link, path) ==
    [title |-> row.title, author |-> row.author, format |-> row.file_format,
     size |-> row.size,
     download_url |-> IF row.mirrors = <<>> THEN link ELSE row.mirrors[1],
     download_result |-> path]

\* book_downloader.py:212-219
hunt_result(row, link, path) ==
    [title |-> row.title, author |-> row.author, format |-> row.file_format,
     size |-> row.size, download_url |-> link, download_result |-> path]

\* a row loop that gives the query up after its first row (a return where
\* the code has break)
RECURSIVE next_attempt_first_row(_, _, _, _, _, _)
next_attempt_first_row(results, have, preferred, r, att, skp) ==
    IF r > Len(results) \/ r > 1
    THEN [exhausted |-> TRUE, row |-> 0, cursor |-> 0,
          attempted |-> att, skipped |-> skp]
    ELSE IF have /\ ~found_format(results[r].file_format, preferred)
    THEN next_attempt_first_row(results, have, preferred, r + 1, att,
                                skp \cup {r})
    ELSE LET c == first_mirror(results[r].mirrors, resolve_from)
         IN IF c = 0
            THEN next_attempt_first_row(results, have, preferred, r + 1,
                                        Append(att, r), skp)
            ELSE [exhausted |-> FALSE, row |-> r, cursor |-> c,
                  attempted |-> Append(att, r), skipped |-> skp]

\* The row loop of hunt_for_book (book_downloader.py:176-203) from row r up
\* to its next page fetch: rows are skipped for their format, or entered and
\* left at once when extract_download_link finds no link to fetch.
RECURSIVE next_attempt(_, _, _, _, _, _)
next_attempt(results, have, preferred, r, att, skp) ==
    IF r > Len(results)
    THEN [exhausted |-> TRUE, row |-> 0, cursor |-> 0,
          attempted |-> att, skipped |-> skp]
    ELSE IF have /\ ~found_format(results[r].file_format, preferred)
    THEN next_attempt(results, have, preferred, r + 1, att, skp \cup {r})
    ELSE LET c == first_mirror(results[r].mirrors, resolve_from)
         IN IF c = 0
            THEN next_attempt(results, have, preferred, r + 1,
                              Append(att, r), skp)
            ELSE [exhausted |-> FALSE, row |-> r, cursor |-> c,
                  attempted |-> Append(att, r), skipped |-> skp]

(***************************************************************************)
(* State of one call of search_and_download_book.  A pc of "search",       *)
(* "mirror" or "download" says that the HTTP request of that kind has been *)
(* sent and its response is awaited: the search for queries[qi], the page  *)
(* of link cursor of row ri, the file at download_link.                    *)
(***************************************************************************)
VARIABLES
    pc,                   \* "search", "mirror", "download", "done"
    request,              \* title, author, isbn
    preferred_formats,
    queries,              \* search_queries
    qi,                   \* position in queries
    sorted_results,       \* of the latest search
    have_desired_format,
    ri,                   \* row of sorted_results in the mirror loop, or 0
    cursor,               \* link of that row being fetched, or 0
    download_link,
    outcome,              \* "pending", "result", "none", "raised"
    result,               \* the returned dict, <<>> before
    files,                \* names of the files in the download directory
    ledger,               \* lines of already_downloaded.txt
    \* what has happened so far, recorded for the properties
    searched,             \* queries sent to the catalog, in order
    search_status,        \* response to the latest search: "ok", "error"
    rows_seen,            \* some search response had a result row
    attempted,            \* rows of sorted_results whose mirrors were resolved
    skipped,              \* rows of sorted_results passed over for the format
    failed,               \* links of row ri whose download raised
    downloads,            \* download_book has been called
    fetched               \* links whose page the running call of
                          \* extract_download_link(mirrors_cell, 0) has
                          \* requested, in order

pvars == <<pc, request, preferred_formats, queries, qi, sorted_results,
           have_desired_format, ri, cursor, download_link, outcome, result,
           files, ledger, searched, search_status, rows_seen, attempted,
           skipped, failed, downloads, fetched>>

\* State of a batch run: main.main or app.run_wishlist_crawl
VARIABLES
    driver,               \* "main", "crawl", or "none" outside a batch run
    bpc,                  \* "start", "acquiring", "delivering", "done"
    books,                \* the list the book loop iterates over
    bi,                   \* position in books, 0 outside the loop
    already_downloaded,   \* the set read from the ledger when the run starts
    passed,               \* titles passed to search_and_download_book
    successful_books,
    failed_books,
    total_books,          \* len(new_books) in the crawl
    raised_out            \* an exception left the book loop

bvars == <<driver, bpc, books, bi, already_downloaded, passed,
           successful_books, failed_books, total_books, raised_out>>

\* State of the Flask app
VARIABLES
    is_running,           \* app_status['is_running']
    current_task,         \* app_status['current_task']
    progress,             \* app_status['progress']
    thr                   \* the request and worker threads

avars == <<is_running, current_task, progress, thr>>

\* the state of a call of search_and_download_book, which has no access to
\* the ledger
callvars == <<pc, request, preferred_formats, queries, qi, sorted_results,
              have_desired_format, ri, cursor, download_link, outcome, result,
              files, searched, search_status, rows_seen, attempted, skipped,
              failed, downloads, fetched>>

\* State of one call of a function that reads no state of the program
VARIABLES
    fn,                   \* the function called, "none" outside such a call
    args,                 \* its arguments
    ret                   \* <<the value returned>>, <<>> before the return

fvars == <<fn, args, ret>>

\* logger.py:13-14 and app_status['logs'] (app.py:45)
VARIABLES
    log_buffer,           \* _log_buffer: the entries logged without a sink
    flask_add_log,        \* _flask_add_log: None or the sink that was set
    print_logging,        \* builtins.print is logged_print (logger.py:93)
    logs,                 \* app_status['logs']
    tick,                 \* the readings of datetime.now() so far
    logged,               \* <<message, level>> of every call of logger.log
    delivered,            \* <<message, level>> of every call of the sink
    added                 \* the entry of every call of add_log

lvars ==
    <<log_buffer, flask_add_log, print_logging, logs, tick, logged, delivered,
      added>>

vars == <<pvars, bvars, avars, fvars, lvars>>

NoCall ==
    /\ fn = "none"
    /\ args = <<>>
    /\ ret = <<>>

None == "None"

NoLogging ==
    /\ log_buffer = <<>>
    /\ flask_add_log = None
    /\ print_logging = FALSE
    /\ logs = <<>>
    /\ tick = 0
    /\ logged = <<>>
    /\ delivered = <<>>
    /\ added = <<>>

\* the values of the variables a specification does not use
NoPipeline ==
    /\ pc = "done"
    /\ request = [title |-> "", author |-> "", isbn |-> ""]
    /\ preferred_formats = <<>>
    /\ queries = <<>>
    /\ qi = 0
    /\ sorted_results = <<>>
    /\ have_desired_format = FALSE
    /\ ri = 0
    /\ cursor = 0
    /\ download_link = ""
    /\ outcome = "pending"
    /\ result = <<>>
    /\ files = {}
    /\ searched = <<>>
    /\ search_status = "none"
    /\ rows_seen = FALSE
    /\ attempted = <<>>
    /\ skipped = {}
    /\ failed = {}
    /\ downloads = FALSE
    /\ fetched = <<>>

NoBatch ==
    /\ driver = "none"
    /\ bpc = "done"
    /\ books = <<>>
    /\ bi = 0
    /\ already_downloaded = {}
    /\ passed = <<>>
    /\ successful_books = 0
    /\ failed_books = 0
    /\ total_books = 0
    /\ raised_out = FALSE

\* app_status as app.py:40-46 sets it
AppStatusInit ==
    /\ is_running = FALSE
    /\ current_task = None
    /\ progress = 0

NoThreads == thr = <<>>

\* already_downloaded.txt when the call starts
InitialLedger == {"ab"}

\* search_and_download_book up to its first search (book_downloader.py:38-53)
Init ==
    /\ \E c \in Calls : request = c[1] /\ preferred_formats = c[2]
    /\ queries = search_queries(request.title, request.author, request.isbn)
    /\ qi = 1
    /\ searched = <<queries[1]>>
    /\ pc = "search"
    /\ sorted_results = <<>>
    /\ have_desired_format = FALSE
    /\ ri = 0
    /\ cursor = 0
    /\ download_link = ""
    /\ outcome = "pending"
    /\ result = <<>>
    /\ files = {}
    /\ ledger = InitialLedger
    /\ search_status = "none"
    /\ rows_seen = FALSE
    /\ attempted = <<>>
    /\ skipped = {}
    /\ failed = {}
    /\ downloads = FALSE
    /\ fetched = <<>>
    /\ NoBatch
    /\ AppStatusInit
    /\ NoThreads
    /\ NoCall
    /\ NoLogging

\* book_downloader.py:162
real_title(original_title, search_query) ==
    IF original_title # "" THEN original_title ELSE search_query

\* book_downloader.py:95-163 for every title and every response body of the
\* model, computed once
RankedTable ==
    [t \in {r.title : r \in Requests}, body \in SearchBodies |->
        order_results_by_closest_match(t, all_results(body))]

\* hunt_for_book returned None: the next query, or None after the last
\* (book_downloader.py:52-58)
QueryFailed ==
    IF qi < Len(queries)
    THEN /\ qi' = qi + 1
         /\ searched' = Append(searched, queries[qi + 1])
         /\ pc' = "search"
         /\ outcome' = outcome
    ELSE /\ pc' = "done"
         /\ outcome' = "none"
         /\ UNCHANGED <<qi, searched>>

\* an error that is noted while the same request is awaited once more
RaisedAndRetried ==
    /\ pc' = pc
    /\ outcome' = "raised"

\* an exception leaves search_and_download_book, which catches none
Raised ==
    /\ pc' = "done"
    /\ outcome' = "raised"

\* hunt_for_book goes on in its row loop as far as step says
Proceed(step) ==
    /\ attempted' = step.attempted
    /\ skipped' = step.skipped
    /\ failed' = {}
    /\ IF step.exhausted
       THEN /\ QueryFailed
            /\ ri' = 0
            /\ cursor' = 0
            /\ fetched' = <<>>
       ELSE /\ pc' = "mirror"
            /\ ri' = step.row
            /\ cursor' = step.cursor
            /\ fetched' = <<step.cursor>>
            /\ UNCHANGED <<qi, searched, outcome>>

\* requests.get(search_url) answers non-2xx: raise_for_status raises
\* (book_downloader.py:85-86)
SearchFails ==
    /\ pc = "search"
    /\ search_status' = "error"
    /\ Raised
    /\ UNCHANGED <<bvars, avars, fvars, lvars>>
    /\ UNCHANGED <<request, preferred_formats, queries, qi, sorted_results,
                   have_desired_format, ri, cursor, download_link, result,
                   files, ledger, searched, rows_seen, attempted, skipped,
                   failed, downloads, fetched>>

\* the search answers 2xx: parse, rank, select, and enter the mirror loop
\* of the first accepted row (book_downloader.py:87-200)
SearchReturns ==
    /\ pc = "search"
    /\ \E body \in SearchBodies :
        LET ranked == RankedTable[real_title(request.title, queries[qi]),
                                  body]
            have == have_desired_format_of(ranked, preferred_formats)
        IN /\ sorted_results' = ranked
           /\ have_desired_format' = have
           /\ rows_seen' = (rows_seen \/ ranked # <<>>)
           /\ Proceed(next_attempt(ranked, have, preferred_formats, 1,
                                   <<>>, {}))
    /\ search_status' = "ok"
    /\ download_link' = ""
    /\ UNCHANGED <<bvars, avars, fvars, lvars>>
    /\ UNCHANGED <<request, preferred_formats, queries, result, files, ledger,
                   downloads>>

\* the mirror page answers non-2xx, or its GET link has no href
\* (book_downloader.py:274-275, 290-293): extract_download_link raises
MirrorFails ==
    /\ pc = "mirror"
    /\ Raised
    /\ UNCHANGED <<bvars, avars, fvars, lvars>>
    /\ UNCHANGED <<request, preferred_formats, queries, qi, sorted_results,
                   have_desired_format, ri, cursor, download_link, result,
                   files, ledger, searched, search_status, rows_seen,
                   attempted, skipped, failed, downloads, fetched>>

\* the mirror page has no link with text GET: the next link of the row, or
\* the next row when there is none (book_downloader.py:286-288, 201-203)
MirrorNoGet ==
    /\ pc = "mirror"
    /\ LET c == first_mirror(sorted_results[ri].mirrors, cursor + 1)
       IN IF c # 0
          THEN /\ cursor' = c
               /\ fetched' = Append(fetched, c)
               /\ UNCHANGED <<pc, qi, ri, outcome, searched, attempted,
                              skipped, failed>>
          ELSE Proceed(next_attempt(sorted_results, have_desired_format,
                                    preferred_formats, ri + 1,
                                    attempted, skipped))
    /\ UNCHANGED <<bvars, avars, fvars, lvars>>
    /\ UNCHANGED <<request, preferred_formats, queries, sorted_results,
                   have_desired_format, download_link, result, files, ledger,
                   search_status, rows_seen, downloads>>

\* the mirror page has a GET link: download_book is called with its
\* absolute form (book_downloader.py:286-295, 205-207, 319)
MirrorGet ==
    /\ pc = "mirror"
    /\ \E href \in GetHrefs : download_link' = make_absolute_url(href)
    /\ pc' = "download"
    /\ downloads' = TRUE
    /\ UNCHANGED <<bvars, avars, fvars, lvars>>
    /\ UNCHANGED <<request, preferred_formats, queries, qi, sorted_results,
                   have_desired_format, ri, cursor, outcome, result, files,
                   ledger, searched, search_status, rows_seen, attempted,
                   skipped, failed, fetched>>

\* download_book raises: a non-2xx answer, or an I/O error before or after
\* the file was opened (book_downloader.py:319-351).  hunt_for_book
\* catches it and calls extract_download_link again (206-210, 200).
DownloadFails ==
    /\ pc = "download"
    /\ \E opened \in BOOLEAN, headers \in DownloadHeaders, now \in Clock :
        files' = IF opened
                 THEN files \cup {download_filename(download_link, headers, now)}
                 ELSE files
    /\ failed' = failed \cup {cursor}
    /\ cursor' = first_mirror(sorted_results[ri].mirrors, resolve_from)
    /\ fetched' = <<first_mirror(sorted_results[ri].mirrors, resolve_from)>>
    /\ pc' = "mirror"
    /\ UNCHANGED <<bvars, avars, fvars, lvars>>
    /\ UNCHANGED <<request, preferred_formats, queries, qi, sorted_results,
                   have_desired_format, ri, download_link, outcome, result,
                   ledger, searched, search_status, rows_seen, attempted,
                   skipped, downloads>>

\* download_book writes the file and returns its path; hunt_for_book and
\* search_and_download_book return the result (book_downloader.py:319-354,
\* 212-219, 53)
DownloadSucceeds ==
    /\ pc = "download"
    /\ \E headers \in DownloadHeaders, now \in Clock :
        LET filename == download_filename(download_link, headers, now)
            filepath == path_join(download_dir, filename)
        IN /\ files' = files \cup {filename}
           /\ result' = hunt_result(sorted_results[ri], download_link, filepath)
    /\ pc' = "done"
    /\ outcome' = "result"
    /\ UNCHANGED <<bvars, avars, fvars, lvars>>
    /\ UNCHANGED <<request, preferred_formats, queries, qi, sorted_results,
                   have_desired_format, ri, cursor, download_link, ledger,
                   searched, search_status, rows_seen, attempted, skipped,
                   failed, downloads, fetched>>

Next ==
    \/ SearchFails
    \/ SearchReturns
    \/ MirrorFails
    \/ MirrorNoGet
    \/ MirrorGet
    \/ DownloadFails
    \/ DownloadSucceeds

Spec == Init /\ [][Next]_vars

\* every request that was sent is answered
FairSpec == Spec /\ WF_vars(Next)

\* The server never answers the request that is awaited.  requests.get is
\* called without a timeout argument (book_downloader.py:85, 274, 319), so
\* the call waits without limit: no step of the program leaves "blocked".
NoResponse ==
    /\ pc \in {"search", "mirror", "download"}
    /\ pc' = "blocked"
    /\ UNCHANGED <<bvars, avars, fvars, lvars>>
    /\ UNCHANGED <<request, preferred_formats, queries, qi, sorted_results,
                   have_desired_format, ri, cursor, download_link, outcome,
                   result, files, ledger, searched, search_status, rows_seen,
                   attempted, skipped, failed, downloads, fetched>>

NextUnanswered ==
    \/ Next
    \/ NoResponse

\* a call whose requests may stay unanswered; every step the program can
\* take is taken
FairSpecUnanswered ==
    Init /\ [][NextUnanswered]_vars /\ WF_vars(NextUnanswered)

TypeOK ==
    /\ pc \in {"search", "mirror", "download", "done", "blocked"}
    /\ outcome \in {"pending", "result", "none", "raised"}
    /\ qi \in 1..Len(queries)
    /\ (pc \in {"mirror", "download"}) =>
            /\ ri \in 1..Len(sorted_results)
            /\ cursor \in 1..Len(sorted_results[ri].mirrors)

(***************************************************************************)
(* Properties of search_and_download_book and hunt_for_book.               *)
(***************************************************************************)
\* a row format matches a preferred format by case-insensitive substring
MatchesPreferred(file_format, preferred) ==
    \E p \in Range(preferred) : str_in(str_lower(p), str_lower(file_format))

AnyRowMatches ==
    \E i \in 1..Len(sorted_results) :
        MatchesPreferred(sorted_results[i].file_format, preferred_formats)

InMirrorLoop == pc \in {"mirror", "download"}

\* C1: after download_book raised for the link resolved from mirror i of a
\* row, the next page fetched for that row is of a mirror after i, so mirror
\* i is not fetched again.
C1_NextMirrorAfterDownloadError ==
    (pc = "mirror" /\ failed # {}) => \A i \in failed : cursor > i

\* C2: search_and_download_book finishes whenever every HTTP request is
\* answered.
C2_Terminates == <>(pc = "done")

\* C5: have_desired_format is true exactly when some row matches a preferred
\* format by case-insensitive substring, and then no page is fetched and no
\* download made for a row that does not match.
C5_FlagIsSubstringMatch ==
    InMirrorLoop =>
        /\ have_desired_format = AnyRowMatches
        /\ AnyRowMatches =>
              MatchesPreferred(sorted_results[ri].file_format, preferred_formats)

IsLowerName(name) ==
    name # "" /\ \A c \in Chars(name) : c \in LowerChars \cup DigitChars

\* the case of C6: plain lowercase formats, a lowercase preferred list, and a
\* row whose format is in the list
C6_Case ==
    /\ \A i \in 1..Len(sorted_results) : IsLowerName(sorted_results[i].file_format)
    /\ \A p \in Range(preferred_formats) : IsLowerName(p)
    /\ \E i \in 1..Len(sorted_results) :
            sorted_results[i].file_format \in Range(preferred_formats)

Increasing(seq) == \A i, j \in 1..Len(seq) : i < j => seq[i] < seq[j]

\* C6 as stated: in that case only rows whose format is in the preferred
\* list are attempted, in ranked order.
C6_OnlyListedFormatsAttempted ==
    C6_Case =>
        /\ \A r \in Range(attempted) :
                sorted_results[r].file_format \in Range(preferred_formats)
        /\ Increasing(attempted)

\* C6 amended: in that case only rows whose format contains a preferred
\* format as a substring are attempted, in ranked order, and every other row
\* before the current one is skipped.
C6_OnlyMatchingFormatsAttempted ==
    C6_Case =>
        /\ \A r \in Range(attempted) :
                MatchesPreferred(sorted_results[r].file_format, preferred_formats)
        /\ \A r \in skipped :
                ~MatchesPreferred(sorted_results[r].file_format, preferred_formats)
        /\ Increasing(attempted)

C6_Witness ==
    /\ C6_Case
    /\ pc = "mirror"
    /\ skipped = {1}
    /\ attempted = <<2>>
    /\ sorted_results[1].file_format = "pdf"
    /\ sorted_results[2].file_format = "epub"
    /\ preferred_formats = <<"epub">>

\* rows of the latest search that the row loop has reached
RowsReached == IF ri # 0 THEN ri ELSE Len(sorted_results)

\* C7: when no row matches a preferred format no row is skipped for its
\* format: the rows are attempted one after the other in ranked order, all
\* of them when none yields a file.
C7_NoMatchNoSkip ==
    ~AnyRowMatches =>
        /\ skipped = {}
        /\ attempted = [k \in 1..RowsReached |-> k]

C7_Witness ==
    /\ ~AnyRowMatches
    /\ Len(sorted_results) = 2
    /\ attempted = <<1, 2>>
    /\ pc = "download"
    /\ sorted_results[1].file_format = "pdf"
    /\ sorted_results[2].file_format = "azw3"
    /\ preferred_formats = <<"epub">>

AllPresent == request.title # "" /\ request.author # "" /\ request.isbn # ""

\* the five queries of a request with title, author and ISBN
FiveQueries ==
    << request.isbn,
       request.title \o " " \o request.author,
       request.title,
       clean_title(request.title) \o " " \o request.author,
       clean_title(request.title) >>

\* C8: with title, author and ISBN present and zero rows from every search,
\* the five planned queries are searched in order and the call returns none;
\* download_book is not called, no file is written, the ledger stays.
C8_ZeroRowsFiveSearches ==
    (AllPresent /\ ~rows_seen) =>
        /\ searched = SubSeq(FiveQueries, 1, Len(searched))
        /\ ~downloads
        /\ files = {}
        /\ ledger = InitialLedger
        /\ (pc = "done" /\ search_status = "ok") =>
                /\ Len(searched) = 5
                /\ outcome = "none"
                /\ result = <<>>

C8_Witness ==
    /\ ~rows_seen
    /\ pc = "done"
    /\ search_status = "ok"
    /\ outcome = "none"
    /\ searched = <<"9", "Ab (x): c x", "Ab (x): c", "Ab x", "Ab">>

\* what the result of a successful call has to be in the state it is
\* returned in
ResultOfDownloadedRow ==
    /\ pc = "done"
    /\ ri \in 1..Len(sorted_results)
    /\ result.title = sorted_results[ri].title
    /\ result.author = sorted_results[ri].author
    /\ result.format = sorted_results[ri].file_format
    /\ result.size = sorted_results[ri].size
    /\ result.download_url = download_link
    /\ str_startswith(download_link, "http")
    /\ \E name \in files : result.download_result = download_dir \o "/" \o name
    /\ Len(searched) = qi
    /\ attempted # <<>> /\ attempted[Len(attempted)] = ri

C10_SearchErrorConfinedToQuery ==
    (search_status = "error" /\ qi < Len(queries)) => pc # "done"

\* C11: an HTTP call of the pipeline (search, mirror page, file stream)
\* that never receives a response is given up after a finite timeout, so
\* the acquisition does not stay blocked in it forever.
C11_UnansweredCallGivenUp == (pc = "blocked") ~> (pc # "blocked")

\* the rows after row r that the format test accepts
AcceptedAfter(r) ==
    {k \in (r + 1)..Len(sorted_results) :
        ~(have_desired_format
          /\ ~found_format(sorted_results[k].file_format, preferred_formats))}

\* a step in which extract_download_link returns None for row ri, after its
\* last page without a GET link
MirrorsExhausted == pc = "mirror" /\ ri' # ri

\* C12: when the mirrors of an accepted row are exhausted without a
\* download link, hunt_for_book goes on to the next accepted row in ranked
\* order; it returns None for the query only after the last row.
C12_ExhaustedRowFallsToNextRow ==
    [][ MirrorsExhausted =>
          /\ outcome' # "raised"
          /\ AcceptedAfter(ri) # {} =>
                /\ Len(attempted') > Len(attempted)
                /\ attempted'[Len(attempted) + 1] = Min(AcceptedAfter(ri))
          /\ ri' # 0 => (ri' \in AcceptedAfter(ri) /\ qi' = qi
                          /\ pc' = "mirror")
          /\ ri' = 0 =>
                /\ AcceptedAfter(ri) \subseteq Range(attempted')
                /\ \/ (pc' = "search" /\ qi' = qi + 1)
                   \/ (pc' = "done" /\ outcome' = "none") ]_vars

\* the second row is being resolved after the pages of the first row's
\* links had no GET link
C12_Witness ==
    /\ pc = "mirror"
    /\ Len(attempted) = 2
    /\ ri = attempted[2]
    /\ first_mirror(sorted_results[attempted[1]].mirrors, resolve_from) # 0

\* the links up to link k that have a page to fetch
FetchableUpTo(links, k) == {i \in 1..k : links[i] # ""}

\* C13 as claimed: one resolution over n links whose first page with a GET
\* link is that of index k fetches exactly the indices 0..k in that order
\* (1..k+1 here), k+1 fetches, and returns the absolute form of the GET
\* href; without any GET link it makes n fetches and returns None.
C13_FetchesEveryIndex ==
    [][ /\ pc = "mirror" =>
              /\ Increasing(fetched)
              /\ Range(fetched) = 1..cursor
              /\ Len(fetched) = cursor
        /\ (pc = "mirror" /\ pc' = "download") =>
              /\ fetched' = fetched
              /\ cursor' = cursor
              /\ download_link' \in {make_absolute_url(h) : h \in GetHrefs}
        /\ MirrorsExhausted =>
              Len(fetched) = Len(sorted_results[ri].mirrors) ]_vars

\* C13, amended: the same for the links that have a non-empty href; a link
\* with an empty href is passed over without a fetch.
C13_FetchesEveryLinkWithHref ==
    [][ /\ pc = "mirror" =>
              /\ Increasing(fetched)
              /\ Range(fetched) =
                    FetchableUpTo(sorted_results[ri].mirrors, cursor)
              /\ fetched[Len(fetched)] = cursor
        /\ (pc = "mirror" /\ pc' = "download") =>
              /\ fetched' = fetched
              /\ cursor' = cursor
              /\ download_link' \in {make_absolute_url(h) : h \in GetHrefs}
        /\ MirrorsExhausted =>
              Range(fetched) =
                  FetchableUpTo(sorted_results[ri].mirrors,
                                Len(sorted_results[ri].mirrors)) ]_vars

\* three links, the pages of the first two without a GET link, the third
\* with one: three fetches and its link is returned
C13_Witness ==
    /\ pc = "download"
    /\ Len(sorted_results[ri].mirrors) = 3
    /\ fetched = <<1, 2, 3>>
    /\ str_startswith(download_link, "http")

\* C14: with a non-empty ISBN the first query built is exactly the ISBN, and
\* it is the first query sent to the catalog.
C14_IsbnQueryFirst ==
    request.isbn # "" =>
        /\ queries[1] = request.isbn
        /\ searched[1] = request.isbn

\* a request with an ISBN and no author whose ISBN search failed and whose
\* next query was sent
C14_Witness ==
    /\ request.isbn = "9"
    /\ request.author = ""
    /\ Len(searched) = 2
    /\ searched[2] = request.title

BothPresent == request.title # "" /\ request.author # ""

\* the cleaned form of each title of the model
Cleaned == [t \in {r.title : r \in Requests} |-> clean_title(t)]

\* C15: the query list is never empty and is, in this order, the ISBN (if
\* present), "title author" (if both are present), the raw title, the
\* cleaned title followed by the author, the cleaned title; the queries are
\* sent in that order, the next one only while no result was returned.
C15_QueriesInPlannerOrder ==
    LET n == Len(queries)
    IN /\ n = 3 + (IF request.isbn # "" THEN 1 ELSE 0)
               + (IF BothPresent THEN 1 ELSE 0)
       /\ request.isbn # "" => queries[1] = request.isbn
       /\ BothPresent =>
            queries[n - 3] = request.title \o " " \o request.author
       /\ queries[n - 2] = request.title
       /\ queries[n - 1] =
            Cleaned[request.title] \o " " \o request.author
       /\ queries[n] = Cleaned[request.title]
       /\ Len(searched) = qi
       /\ searched = SubSeq(queries, 1, qi)
       /\ pc # "done" => (outcome = "pending" /\ result = <<>>)

\* a request with title and author and no ISBN whose four queries were all
\* searched without a file
C15_Witness ==
    /\ request.isbn = ""
    /\ request.author = "y"
    /\ pc = "done"
    /\ outcome = "none"
    /\ searched = <<"ab y", "ab", "ab y", "ab">>

\* what the call has fetched and searched, and where it stands
CallProgress ==
    <<pc, qi, ri, cursor, fetched, searched, attempted, skipped, failed,
      download_link, downloads, files, result, outcome>>

\* C25: when the fetch of a mirror page answers non-2xx,
\* extract_download_link raises: the call ends with the error, the mirror
\* is not fetched again, no later mirror of the row is fetched, and no later
\* row or query is tried.
C25_MirrorErrorEndsTheCall ==
    [][/\ (pc = "mirror" /\ outcome' = "raised") =>
            /\ pc' = "done"
            /\ fetched' = fetched
            /\ <<qi', ri', cursor'>> = <<qi, ri, cursor>>
            /\ searched' = searched
            /\ attempted' = attempted
       /\ outcome = "raised" => CallProgress' = CallProgress]_vars

\* the first link of the first of two rows answered non-2xx while two more
\* links, another row and another query were left
C25_Witness ==
    /\ pc = "done"
    /\ outcome = "raised"
    /\ search_status = "ok"
    /\ qi < Len(queries)
    /\ Len(sorted_results) = 2
    /\ ri = 1
    /\ Len(sorted_results[ri].mirrors) = 3
    /\ fetched = <<1>>

(***************************************************************************)
(* The batch drivers: main.main (main.py:31-105) and                       *)
(* app.run_wishlist_crawl (app.py:256-342), one run of either.  A call of  *)
(* search_and_download_book or send_epub_to_kindle is one step with one of *)
(* its outcomes.  The third driver that writes the ledger, one request to  *)
(* app.api_manual_search (app.py:372-418), is run the same way.            *)
(***************************************************************************)
\* most book links on the wishlist page
MaxLinks == 2

\* <a href=...dp/...> elements of the wishlist page with the details found
\* for them ("" when a detail is not found)
PageLinks ==
    { [href |-> "/dp/1?ref=a", title |-> "ab", author |-> "x", isbn |-> "9"],
      [href |-> "https://www.amazon.com/dp/1", title |-> "ab", author |-> "x",
       isbn |-> "9"],
      [href |-> "/dp/2", title |-> "ab", author |-> "x", isbn |-> ""],
      [href |-> "/dp/3", title |-> "cd", author |-> "", isbn |-> ""],
      [href |-> "/dp/4", title |-> "cd", author |-> "y", isbn |-> ""] }

Wishlists == SeqsUpTo(PageLinks, MaxLinks)

\* already_downloaded.txt before the run
Ledgers == {{}, {"ab"}}

\* the query of a manual search, stripped (app.py:377)
ManualQueries == {"", "ab"}

\* download_result['title'] of a manual search: the title of a result row
ResultTitles == {"ab", "Unknown Title"}

\* wishlist_scraper.py:114-118
book_url(href) ==
    The({UpTo(h, {"?"}) :
            h \in {IF str_startswith(href, "/")
                   THEN "https://www.amazon.com" \o href ELSE href}})

\* wishlist_scraper.py:111-151: one book per new URL that has a title and
\* an author
RECURSIVE scrape(_, _)
scrape(links, seen_urls) ==
    IF links = <<>> THEN <<>>
    ELSE LET link == Head(links)
             url == book_url(link.href)
         IN IF url \in seen_urls THEN scrape(Tail(links), seen_urls)
            ELSE IF link.title # "" /\ link.author # ""
            THEN <<[title |-> link.title, author |-> link.author,
                    url |-> url, isbn |-> link.isbn]>>
                     \o scrape(Tail(links), seen_urls \cup {url})
            ELSE scrape(Tail(links), seen_urls \cup {url})

get_wishlist_books(links) == scrape(links, {})

\* app.py:275
RECURSIVE new_books(_, _)
new_books(bks, downloaded) ==
    IF bks = <<>> THEN <<>>
    ELSE IF Head(bks).title \notin downloaded
         THEN <<Head(bks)>> \o new_books(Tail(bks), downloaded)
         ELSE new_books(Tail(bks), downloaded)

\* a loop that ends after its first book
next_book_first_only(d, bks, downloaded, from) ==
    LET todo == {j \in from..Len(bks) :
                    d = "crawl" \/ bks[j].title \notin downloaded}
    IN IF todo = {} \/ from > 1 THEN 0 ELSE Min(todo)

\* the next book the loop processes at or after position from, 0 when there
\* is none: main.py:53 passes over the titles of already_downloaded, the
\* crawl loops over new_books (app.py:288)
next_book(d, bks, downloaded, from) ==
    LET todo == {j \in from..Len(bks) :
                    d = "crawl" \/ bks[j].title \notin downloaded}
    IN IF todo = {} THEN 0 ELSE Min(todo)

InitBatch ==
    /\ driver \in {"main", "crawl", "manual"}
    /\ bpc = "start"
    /\ books = <<>>
    /\ bi = 0
    /\ already_downloaded = {}
    /\ passed = <<>>
    /\ successful_books = 0
    /\ failed_books = 0
    /\ total_books = 0
    /\ raised_out = FALSE
    /\ ledger \in Ledgers
    /\ AppStatusInit
    /\ NoThreads
    /\ NoCall
    /\ NoLogging
    /\ NoPipeline

\* the end of the run: the summary (main.py:92-100; app.py:331-335) and the
\* finally block of the crawl (app.py:339-342)
BatchEnds ==
    /\ bpc' = "done"
    /\ bi' = 0
    /\ IF driver = "crawl"
       THEN /\ is_running' = FALSE
            /\ current_task' = None
            /\ progress' = 0
       ELSE UNCHANGED <<is_running, current_task, progress>>

\* the loop goes to its next book and calls search_and_download_book for
\* it (main.py:52-58; app.py:288-301), or ends
BatchGoesOn(bks, downloaded, total, from) ==
    LET j == next_book(driver, bks, downloaded, from)
    IN IF j = 0
       THEN /\ BatchEnds
            /\ UNCHANGED passed
       ELSE /\ bpc' = "acquiring"
            /\ bi' = j
            /\ passed' = Append(passed, bks[j].title)
            /\ IF driver = "crawl"
               THEN /\ current_task' = "Processing: " \o bks[j].title
                    /\ progress' = 20 + (((j - 1) * 60) \div total)
                    /\ is_running' = TRUE
               ELSE UNCHANGED <<is_running, current_task, progress>>

\* main.py:39-52: the ledger is read, the wishlist fetched (once more when
\* it came back empty), and the loop entered.  An unreadable ledger raises
\* out of main.
MainStarts ==
    /\ driver = "main"
    /\ bpc = "start"
    /\ \E readable \in BOOLEAN, first \in Wishlists, second \in Wishlists :
        IF ~readable
        THEN /\ raised_out' = TRUE
             /\ bpc' = "done"
             /\ UNCHANGED <<books, bi, already_downloaded, passed, is_running,
                            current_task, progress>>
        ELSE LET bks == IF get_wishlist_books(first) = <<>>
                        THEN get_wishlist_books(second)
                        ELSE get_wishlist_books(first)
             IN /\ already_downloaded' = ledger
                /\ books' = bks
                /\ BatchGoesOn(bks, ledger, 0, 1)
                /\ UNCHANGED raised_out
    /\ UNCHANGED <<driver, successful_books, failed_books, total_books, ledger,
                   thr>>
    /\ UNCHANGED <<callvars, fvars, lvars>>

\* app.py:258-301: the status is set, the wishlist fetched, the ledger read,
\* new_books built and the loop entered; the run ends at once on an empty
\* wishlist, an unreadable ledger or no new book
CrawlStarts ==
    /\ driver = "crawl"
    /\ bpc = "start"
    /\ \E readable \in BOOLEAN, links \in Wishlists :
        LET bks == get_wishlist_books(links)
            new == new_books(bks, ledger)
        IN IF bks = <<>> \/ ~readable \/ new = <<>>
           THEN /\ BatchEnds
                /\ UNCHANGED <<books, already_downloaded, passed, total_books>>
           ELSE /\ already_downloaded' = ledger
                /\ books' = new
                /\ total_books' = Len(new)
                /\ BatchGoesOn(new, ledger, Len(new), 1)
    /\ UNCHANGED <<driver, successful_books, failed_books, raised_out, ledger,
                   thr>>
    /\ UNCHANGED <<callvars, fvars, lvars>>

\* a failed acquisition that records the title all the same
AcquisitionFailsRecorded ==
    /\ bpc = "acquiring"
    /\ failed_books' = failed_books + 1
    /\ ledger' = ledger \cup {books[bi].title}
    /\ BatchGoesOn(books, already_downloaded, total_books, bi + 1)
    /\ UNCHANGED <<driver, books, already_downloaded, successful_books,
                   total_books, raised_out, thr>>
    /\ UNCHANGED <<callvars, fvars, lvars>>

\* search_and_download_book returns None or raises: the book has failed
\* (main.py:60-64, 84-90; app.py:303-306, 324-329)
AcquisitionFails ==
    /\ bpc = "acquiring"
    /\ failed_books' = failed_books + 1
    /\ BatchGoesOn(books, already_downloaded, total_books, bi + 1)
    /\ UNCHANGED <<driver, books, already_downloaded, successful_books,
                   total_books, raised_out, ledger, thr>>
    /\ UNCHANGED <<callvars, fvars, lvars>>

\* both drivers record the title as soon as the book is downloaded
AcquisitionSucceedsRecorded ==
    /\ bpc = "acquiring"
    /\ bpc' = "delivering"
    /\ ledger' = ledger \cup {books[bi].title}
    /\ IF driver = "crawl"
       THEN current_task' = "Sending to Kindle: " \o books[bi].title
       ELSE UNCHANGED current_task
    /\ UNCHANGED <<driver, books, bi, already_downloaded, passed,
                   successful_books, failed_books, total_books, raised_out,
                   is_running, progress, thr>>
    /\ UNCHANGED <<callvars, fvars, lvars>>

\* search_and_download_book returns a result: send_epub_to_kindle is called
\* (main.py:66-70); the crawl records the title first (app.py:308-316)
AcquisitionSucceeds ==
    /\ bpc = "acquiring"
    /\ bpc' = "delivering"
    /\ IF driver = "crawl"
       THEN /\ ledger' = ledger \cup {books[bi].title}
            /\ current_task' = "Sending to Kindle: " \o books[bi].title
       ELSE UNCHANGED <<ledger, current_task>>
    /\ UNCHANGED <<driver, books, bi, already_downloaded, passed,
                   successful_books, failed_books, total_books, raised_out,
                   is_running, progress, thr>>
    /\ UNCHANGED <<callvars, fvars, lvars>>

\* send_epub_to_kindle returns True (main.py:72-77; app.py:317-319)
DeliverySucceeds ==
    /\ bpc = "delivering"
    /\ successful_books' = successful_books + 1
    /\ ledger' = IF driver = "main" THEN ledger \cup {books[bi].title}
                 ELSE ledger
    /\ BatchGoesOn(books, already_downloaded, total_books, bi + 1)
    /\ UNCHANGED <<driver, books, already_downloaded, failed_books,
                   total_books, raised_out, thr>>
    /\ UNCHANGED <<callvars, fvars, lvars>>

\* a failed delivery that is not counted
DeliveryFailsUncounted ==
    /\ bpc = "delivering"
    /\ BatchGoesOn(books, already_downloaded, total_books, bi + 1)
    /\ UNCHANGED <<driver, books, already_downloaded, successful_books,
                   failed_books, total_books, raised_out, ledger, thr>>
    /\ UNCHANGED <<callvars, fvars, lvars>>

\* send_epub_to_kindle returns False or raises (main.py:78-90;
\* app.py:320-329)
DeliveryFails ==
    /\ bpc = "delivering"
    /\ failed_books' = failed_books + 1
    /\ BatchGoesOn(books, already_downloaded, total_books, bi + 1)
    /\ UNCHANGED <<driver, books, already_downloaded, successful_books,
                   total_books, raised_out, ledger, thr>>
    /\ UNCHANGED <<callvars, fvars, lvars>>

\* save_already_downloaded raises (main.py:139-144): in main after the
\* delivery was counted as successful (main.py:75-77, 84-90), in the crawl
\* right after the download (app.py:309, 324-329); the book is counted as
\* failed and the loop goes on
RecordingFails ==
    /\ \/ /\ driver = "main"
          /\ bpc = "delivering"
          /\ successful_books' = successful_books + 1
       \/ /\ driver = "crawl"
          /\ bpc = "acquiring"
          /\ UNCHANGED successful_books
    /\ failed_books' = failed_books + 1
    /\ BatchGoesOn(books, already_downloaded, total_books, bi + 1)
    /\ UNCHANGED <<driver, books, already_downloaded, total_books, raised_out,
                   ledger, thr>>
    /\ UNCHANGED <<callvars, fvars, lvars>>

\* what a step of api_manual_search leaves alone
ManualKeeps ==
    /\ UNCHANGED <<driver, books, bi, already_downloaded, passed,
                   successful_books, failed_books, total_books, raised_out>>
    /\ UNCHANGED <<avars, callvars, fvars, lvars>>

\* app.py:375-385: a request without a query is answered at once, with a
\* query search_and_download_book is called
ManualStarts ==
    /\ driver = "manual"
    /\ bpc = "start"
    /\ \E query \in ManualQueries :
        bpc' = IF query = "" THEN "done" ELSE "manual-acquiring"
    /\ UNCHANGED ledger
    /\ ManualKeeps

\* app.py:385-389, 416-418: search_and_download_book returns None or raises
ManualFails ==
    /\ bpc = "manual-acquiring"
    /\ bpc' = "done"
    /\ UNCHANGED ledger
    /\ ManualKeeps

\* app.py:385-393: search_and_download_book returns a result and
\* send_epub_to_kindle is called
ManualSucceeds ==
    /\ bpc = "manual-acquiring"
    /\ bpc' = "manual-delivering"
    /\ UNCHANGED ledger
    /\ ManualKeeps

\* app.py:393-414: send_epub_to_kindle returns, True or False, and the
\* title of the result is recorded
ManualRecords ==
    /\ bpc = "manual-delivering"
    /\ bpc' = "done"
    /\ \E title \in ResultTitles : ledger' = ledger \cup {title}
    /\ ManualKeeps

\* app.py:393-418: send_epub_to_kindle or save_already_downloaded raises
ManualRaises ==
    /\ bpc = "manual-delivering"
    /\ bpc' = "done"
    /\ UNCHANGED ledger
    /\ ManualKeeps

NextBatch ==
    \/ MainStarts
    \/ CrawlStarts
    \/ AcquisitionFails
    \/ AcquisitionSucceeds
    \/ DeliverySucceeds
    \/ DeliveryFails
    \/ RecordingFails
    \/ ManualStarts
    \/ ManualFails
    \/ ManualSucceeds
    \/ ManualRecords
    \/ ManualRaises

SpecBatch == InitBatch /\ [][NextBatch]_vars

\* C4: in a batch run no title that is in the ledger is passed to
\* search_and_download_book, whether it was recorded before the run or
\* earlier in the run.
C4_LedgerTitleNotAcquired ==
    bpc = "acquiring" => books[bi].title \notin ledger

\* a step in which the acquisition or the delivery of the current book of a
\* batch fails: search_and_download_book does not hand a result to the
\* delivery, or the delivery is not counted as a plain success
BookFails ==
    \/ bpc = "acquiring" /\ bpc' # "delivering"
    \/ /\ bpc = "delivering"
       /\ ~(successful_books' = successful_books + 1
            /\ failed_books' = failed_books)

\* the books after the current one whose title is not in the ledger
LaterDue == {j \in (bi + 1)..Len(books) : books[j].title \notin ledger'}

\* C22: in main.main and run_wishlist_crawl an error while acquiring or
\* delivering one book fails only that book: it is counted as failed, nothing
\* is raised out of the run, and the loop goes on, so that every later book
\* that is not in the ledger is still attempted.
C22_FailureFailsOneBook ==
    [][BookFails =>
        /\ failed_books' = failed_books + 1
        /\ ~raised_out'
        /\ LaterDue # {} =>
              /\ bpc' = "acquiring"
              /\ bi' \in (bi + 1)..Min(LaterDue)
              /\ passed' = Append(passed, books[bi'].title)]_vars

\* the first of two books has failed and the second was then acquired
C22_Witness ==
    /\ driver = "main"
    /\ bpc = "delivering"
    /\ bi = 2
    /\ failed_books = 1
    /\ successful_books = 0
    /\ Len(passed) = 2

\* C23: a title is added to the ledger only after search_and_download_book
\* returned a result for that request: the ledger changes only in the step
\* in which the result arrives or while the delivery of that result is under
\* way, the title added by a batch driver is the title of the current book,
\* and an acquisition that returns none or raises leaves the ledger
\* unchanged, in main.main, run_wishlist_crawl and api_manual_search.
C23_LedgerOnlyAfterResult ==
    [][ledger' # ledger =>
        /\ \/ bpc = "acquiring" /\ bpc' = "delivering"
           \/ bpc = "delivering"
           \/ bpc = "manual-delivering"
        /\ driver \in {"main", "crawl"} =>
              ledger' = ledger \cup {books[bi].title}
        /\ driver = "manual" =>
              \E title \in ResultTitles : ledger' = ledger \cup {title}]_vars

\* the crawl has a result for a new title and has recorded it
C23_Witness ==
    /\ driver = "crawl"
    /\ bpc = "delivering"
    /\ books[bi].title \in ledger
    /\ books[bi].title \notin already_downloaded
    /\ failed_books = 1

\* C26 as claimed: in main.main and run_wishlist_crawl the ledger changes
\* only when the delivery returned true.
C26_RecordedOnlyWhenDelivered ==
    [][(driver \in {"main", "crawl"} /\ ledger' # ledger) =>
        /\ bpc = "delivering"
        /\ successful_books' = successful_books + 1]_vars

\* C26, amended: in main.main the ledger changes only when the delivery
\* returned true, and then by the title of the delivered book; in
\* run_wishlist_crawl the title is in the ledger before the delivery is
\* attempted and no outcome of the delivery changes the ledger.
C26_MainAfterDeliveryCrawlBefore ==
    [][/\ (driver = "main" /\ ledger' # ledger) =>
            /\ bpc = "delivering"
            /\ successful_books' = successful_books + 1
            /\ failed_books' = failed_books
            /\ ledger' = ledger \cup {books[bi].title}
       /\ (driver = "crawl" /\ bpc' = "delivering") =>
            books[bi'].title \in ledger'
       /\ (driver = "crawl" /\ bpc = "delivering") => ledger' = ledger]_vars

\* the crawl has ended with its only book failed and the title recorded
C26_Witness ==
    /\ driver = "crawl"
    /\ bpc = "done"
    /\ total_books = 1
    /\ failed_books = 1
    /\ successful_books = 0
    /\ ledger # already_downloaded

\* C29: in run_wishlist_crawl successful_books + failed_books is the number
\* of books processed so far after each book, and total_books, the number
\* of new books, at the summary.
C29_EveryNewBookCountedOnce ==
    driver = "crawl" =>
        /\ bpc \in {"acquiring", "delivering"} =>
              successful_books + failed_books = bi - 1
        /\ (bpc = "done" /\ books # <<>>) =>
              /\ successful_books + failed_books = total_books
              /\ total_books = Len(books)

\* two new books, one delivered and one failed
C29_Witness ==
    /\ driver = "crawl"
    /\ bpc = "done"
    /\ total_books = 2
    /\ successful_books = 1
    /\ failed_books = 1

(***************************************************************************)
(* The Flask app (app.py:372-431, 256-342): every request is handled on a  *)
(* thread of its own and POST /api/crawl-wishlist starts a worker thread.  *)
(* thr[id] is the thread of request id: the handler of a manual search, or *)
(* the worker a crawl request started.  A step is what a thread does       *)
(* between two points where another thread can run: the handler's check    *)
(* and thread start, the worker's first statements, and each call that     *)
(* waits for the network.                                                  *)
(***************************************************************************)
\* requests the app receives
MaxRequests == 2

\* most new books of one crawl
MaxNew == 2

\* titles of the books the app handles
AppTitles == {"ab", "cd"}

Idle == [kind |-> "none", tpc |-> "idle", i |-> 0, total |-> 0]

InitApp ==
    /\ AppStatusInit
    /\ thr = [id \in 1..MaxRequests |-> Idle]
    /\ ledger = {}
    /\ NoBatch
    /\ NoPipeline
    /\ NoCall
    /\ NoLogging

\* app.py:421-424: a task is already running, no thread is started
CrawlRejected(id) ==
    /\ thr[id].tpc = "idle"
    /\ is_running
    /\ thr' = [thr EXCEPT ![id] = [Idle EXCEPT !.kind = "crawl",
                                              !.tpc = "rejected"]]
    /\ UNCHANGED <<is_running, current_task, progress, ledger>>
    /\ UNCHANGED <<callvars, bvars, fvars, lvars>>

\* app.py:421-431: the worker thread is started
CrawlAccepted(id) ==
    /\ thr[id].tpc = "idle"
    /\ ~is_running
    /\ thr' = [thr EXCEPT ![id] = [Idle EXCEPT !.kind = "crawl",
                                              !.tpc = "started"]]
    /\ UNCHANGED <<is_running, current_task, progress, ledger>>
    /\ UNCHANGED <<callvars, bvars, fvars, lvars>>

\* app.py:258-266: the worker sets the status and fetches the wishlist
CrawlBegins(id) ==
    /\ thr[id].tpc = "started"
    /\ is_running' = TRUE
    /\ current_task' = "Fetching wishlist books"
    /\ progress' = 10
    /\ thr' = [thr EXCEPT ![id].tpc = "fetching"]
    /\ UNCHANGED ledger
    /\ UNCHANGED <<callvars, bvars, fvars, lvars>>

\* a worker that ends without resetting the status
CrawlFinallyMissing(id) ==
    /\ thr' = [thr EXCEPT ![id].tpc = "ended"]
    /\ UNCHANGED <<is_running, current_task, progress>>

\* app.py:339-342
CrawlFinally(id) ==
    /\ is_running' = FALSE
    /\ current_task' = None
    /\ progress' = 0
    /\ thr' = [thr EXCEPT ![id].tpc = "ended"]

\* the worker's loop reaches book i and calls search_and_download_book
\* (app.py:288-301), or ends after the last book (app.py:331-342)
CrawlGoesOn(id, i, total) ==
    IF i > total
    THEN CrawlFinally(id)
    ELSE /\ \E title \in AppTitles : current_task' = "Processing: " \o title
         /\ progress' = 20 + (((i - 1) * 60) \div total)
         /\ thr' = [thr EXCEPT ![id].tpc = "acquiring", ![id].i = i,
                               ![id].total = total]
         /\ UNCHANGED is_running

\* app.py:266-301: the wishlist has arrived; with n new books the loop is
\* entered, with none (or on an exception) the run ends
CrawlFetched(id) ==
    /\ thr[id].tpc = "fetching"
    /\ \E n \in 0..MaxNew : CrawlGoesOn(id, 1, n)
    /\ UNCHANGED ledger
    /\ UNCHANGED <<callvars, bvars, fvars, lvars>>

\* search_and_download_book returns None or raises (app.py:303-306, 324-329)
CrawlAcquisitionFails(id) ==
    /\ thr[id].kind = "crawl"
    /\ thr[id].tpc = "acquiring"
    /\ CrawlGoesOn(id, thr[id].i + 1, thr[id].total)
    /\ UNCHANGED ledger
    /\ UNCHANGED <<callvars, bvars, fvars, lvars>>

\* search_and_download_book returns a result (app.py:308-316)
CrawlAcquisitionSucceeds(id) ==
    /\ thr[id].kind = "crawl"
    /\ thr[id].tpc = "acquiring"
    /\ \E title \in AppTitles :
        /\ ledger' = ledger \cup {title}
        /\ current_task' = "Sending to Kindle: " \o title
    /\ thr' = [thr EXCEPT ![id].tpc = "delivering"]
    /\ UNCHANGED <<is_running, progress>>
    /\ UNCHANGED <<callvars, bvars, fvars, lvars>>

\* send_epub_to_kindle returns or raises (app.py:316-329)
CrawlDelivered(id) ==
    /\ thr[id].kind = "crawl"
    /\ thr[id].tpc = "delivering"
    /\ CrawlGoesOn(id, thr[id].i + 1, thr[id].total)
    /\ UNCHANGED ledger
    /\ UNCHANGED <<callvars, bvars, fvars, lvars>>

\* app.py:373-385: a manual search with a query calls
\* search_and_download_book on the request's thread
ManualSearchStarts(id) ==
    /\ thr[id].tpc = "idle"
    /\ thr' = [thr EXCEPT ![id] = [Idle EXCEPT !.kind = "manual",
                                              !.tpc = "acquiring"]]
    /\ UNCHANGED <<is_running, current_task, progress, ledger>>
    /\ UNCHANGED <<callvars, bvars, fvars, lvars>>

\* app.py:379-380: a manual search without a query is answered at once
ManualSearchEmpty(id) ==
    /\ thr[id].tpc = "idle"
    /\ thr' = [thr EXCEPT ![id] = [Idle EXCEPT !.kind = "manual",
                                              !.tpc = "ended"]]
    /\ UNCHANGED <<is_running, current_task, progress, ledger>>
    /\ UNCHANGED <<callvars, bvars, fvars, lvars>>

\* app.py:385-389, 416-418
ManualAcquisitionFails(id) ==
    /\ thr[id].kind = "manual"
    /\ thr[id].tpc = "acquiring"
    /\ thr' = [thr EXCEPT ![id].tpc = "ended"]
    /\ UNCHANGED <<is_running, current_task, progress, ledger>>
    /\ UNCHANGED <<callvars, bvars, fvars, lvars>>

\* app.py:385-393
ManualAcquisitionSucceeds(id) ==
    /\ thr[id].kind = "manual"
    /\ thr[id].tpc = "acquiring"
    /\ thr' = [thr EXCEPT ![id].tpc = "delivering"]
    /\ UNCHANGED <<is_running, current_task, progress, ledger>>
    /\ UNCHANGED <<callvars, bvars, fvars, lvars>>

\* app.py:393-414: the title is recorded whether or not the delivery worked
ManualDelivered(id) ==
    /\ thr[id].kind = "manual"
    /\ thr[id].tpc = "delivering"
    /\ \E title \in AppTitles : ledger' = ledger \cup {title}
    /\ thr' = [thr EXCEPT ![id].tpc = "ended"]
    /\ UNCHANGED <<is_running, current_task, progress>>
    /\ UNCHANGED <<callvars, bvars, fvars, lvars>>

\* app.py:393, 416-418: send_epub_to_kindle raises
ManualDeliveryRaises(id) ==
    /\ thr[id].kind = "manual"
    /\ thr[id].tpc = "delivering"
    /\ thr' = [thr EXCEPT ![id].tpc = "ended"]
    /\ UNCHANGED <<is_running, current_task, progress, ledger>>
    /\ UNCHANGED <<callvars, bvars, fvars, lvars>>

NextApp ==
    \/ \E id \in 1..MaxRequests : CrawlRejected(id)
    \/ \E id \in 1..MaxRequests : CrawlAccepted(id)
    \/ \E id \in 1..MaxRequests : CrawlBegins(id)
    \/ \E id \in 1..MaxRequests : CrawlFetched(id)
    \/ \E id \in 1..MaxRequests : CrawlAcquisitionFails(id)
    \/ \E id \in 1..MaxRequests : CrawlAcquisitionSucceeds(id)
    \/ \E id \in 1..MaxRequests : CrawlDelivered(id)
    \/ \E id \in 1..MaxRequests : ManualSearchStarts(id)
    \/ \E id \in 1..MaxRequests : ManualSearchEmpty(id)
    \/ \E id \in 1..MaxRequests : ManualAcquisitionFails(id)
    \/ \E id \in 1..MaxRequests : ManualAcquisitionSucceeds(id)
    \/ \E id \in 1..MaxRequests : ManualDelivered(id)
    \/ \E id \in 1..MaxRequests : ManualDeliveryRaises(id)

SpecApp == InitApp /\ [][NextApp]_vars

Acquiring == {id \in DOMAIN thr : thr[id].tpc = "acquiring"}

CrawlWorkers ==
    {id \in DOMAIN thr :
        /\ thr[id].kind = "crawl"
        /\ thr[id].tpc \in {"started", "fetching", "acquiring", "delivering"}}

\* C3: in the Flask app at most one call of search_and_download_book is in
\* progress at any time, and at most one run_wishlist_crawl thread is
\* active.
C3_OneAcquisitionAtATime ==
    /\ Cardinality(Acquiring) <= 1
    /\ Cardinality(CrawlWorkers) <= 1

\* C28: every run of run_wishlist_crawl, whichever way it ends, finishes
\* with is_running false, current_task none and progress 0; and a POST to
\* /api/crawl-wishlist received while is_running is true starts no thread
\* and reports that a task is already running.
C28_CrawlResetsStatusAndRejectsWhileRunning ==
    [][\A id \in 1..MaxRequests :
        /\ (thr[id].kind = "crawl" /\ thr[id].tpc # "ended"
                /\ thr'[id].tpc = "ended") =>
              /\ is_running' = FALSE
              /\ current_task' = None
              /\ progress' = 0
        /\ (thr[id].tpc = "idle" /\ thr'[id].kind = "crawl" /\ is_running) =>
              thr'[id].tpc = "rejected"
        /\ thr[id].tpc = "rejected" => thr'[id] = thr[id]]_vars

\* a crawl that went through two books has ended and left the status
\* reset, and a request that came while it ran was rejected
C28_Witness ==
    \E id, other \in 1..MaxRequests :
        /\ thr[id].kind = "crawl"
        /\ thr[id].tpc = "ended"
        /\ thr[id].i = 2
        /\ thr[other].tpc = "rejected"
        /\ ~is_running
        /\ current_task = None
        /\ progress = 0

(***************************************************************************)
(* The functions that read no state: clean_title,                          *)
(* order_results_by_closest_match and the file name download_book writes   *)
(* to, each called once on arguments drawn from the pools below.           *)
(***************************************************************************)
\* most pieces of a title
MaxTokens == 5

\* most rows of a ranked list
MaxRanked == 3

\* pieces titles are put together from
TitleTokens == {"3rd", " ", "(x)", "edition", "a:"}

RECURSIVE Concat(_)
Concat(q) == IF q = <<>> THEN "" ELSE Head(q) \o Concat(Tail(q))

Titles == {Concat(q) : q \in SeqsUpTo(TitleTokens, MaxTokens)}

\* result rows as order_results_by_closest_match reads them, and the titles
\* they are ranked against
RankedRows == {[title |-> t] : t \in {"ab", "AB", "a", "b", "zz"}}

RealTitles == {"ab", "b"}

\* Content-Disposition values around a file name
Disposition(name) == "attachment; filename=\"" \o name \o "\""

HeaderNames ==
    {"", "My Book: Part 1?.epub", " a?.epub", "b", "c d.mobi ", "e/f.pdf",
     " ..", "..\\g"}

FnHeaders ==
    {NoHeader, <<"inline">>} \cup {<<Disposition(n)>> : n \in HeaderNames}

\* download URLs: all that precedes the last path segment, the segment, and
\* what follows the path
UrlDirs == {"http://cdn.x/f/", "https://libgen.li/"}

UrlSegments == {"", "b.epub", "get.php", "n", "a%20b"}

UrlTails == {"", "?md5=1&key=K", "#f.x/y"}

UrlOf(dir, seg, tail) == dir \o seg \o tail

FnUrls == {UrlOf(d, g, t) : d \in UrlDirs, g \in UrlSegments, t \in UrlTails}

\* most <tr> elements of a table handed to the parsing loop
MaxParsed == 3

InitFn ==
    /\ \/ fn = "clean_title" /\ args \in {<<t>> : t \in Titles}
       \/ /\ fn = "order_results_by_closest_match"
          /\ args \in {<<t, rows>> : t \in RealTitles,
                                     rows \in SeqsUpTo(RankedRows, MaxRanked)}
       \/ /\ fn = "download_book"
          /\ args \in {<<u, h, now>> : u \in FnUrls, h \in FnHeaders,
                                       now \in Clock}
       \/ /\ fn = "hunt_for_book"
          /\ args \in {<<rows>> : rows \in SeqsUpTo(RawRows, MaxParsed)}
    /\ ret = <<>>
    /\ NoPipeline
    /\ ledger = {}
    /\ NoBatch
    /\ AppStatusInit
    /\ NoThreads
    /\ NoLogging

Returns(value) ==
    /\ ret = <<>>
    /\ ret' = <<value>>
    /\ UNCHANGED <<fn, args, pvars, bvars, avars, lvars>>

\* book_downloader.py:61-74
CleanTitleReturns ==
    /\ fn = "clean_title"
    /\ Returns(clean_title(args[1]))

\* book_downloader.py:230-234
OrderResultsReturns ==
    /\ fn = "order_results_by_closest_match"
    /\ Returns(order_results_by_closest_match(args[1], args[2]))

\* book_downloader.py:319-345: the name of the file download_book opens
DownloadBookNamesFile ==
    /\ fn = "download_book"
    /\ Returns(download_filename(args[1], args[2], args[3]))

\* book_downloader.py:110-159: the parsing loop of hunt_for_book over the
\* <tr> elements of the table
HuntForBookParses ==
    /\ fn = "hunt_for_book"
    /\ Returns(parse_rows(args[1]))

NextFn ==
    \/ CleanTitleReturns
    \/ OrderResultsReturns
    \/ DownloadBookNamesFile
    \/ HuntForBookParses

SpecFn == InitFn /\ [][NextFn]_vars

Returned(name) == fn = name /\ ret # <<>>

\* C16: clean_title is idempotent: cleaning a cleaned title changes nothing.
C16_CleanTitleIdempotent ==
    Returned("clean_title") => clean_title(ret[1]) = ret[1]

\* the reorderings of n rows
Perms(n) == {f \in [1..n -> 1..n] : \A i, j \in 1..n : f[i] = f[j] => i = j}

\* two scores compared as fractions
Higher(x, y) == x[1] * y[2] > y[1] * x[2]

Same(x, y) == x[1] * y[2] = y[1] * x[2]

\* C17: order_results_by_closest_match returns a permutation of its input
\* sorted by descending similarity to the real title; rows of equal score
\* keep their original relative order.
C17_StableDescendingPermutation ==
    Returned("order_results_by_closest_match") =>
        LET n == Len(args[2])
            score(row) == closest_match(args[1], row.title)
        IN /\ Len(ret[1]) = n
           /\ \A i, j \in 1..n :
                i < j => ~Higher(score(ret[1][j]), score(ret[1][i]))
           /\ \E f \in Perms(n) :
                /\ \A i \in 1..n : ret[1][i] = args[2][f[i]]
                /\ \A i, j \in 1..n :
                     (i < j /\ Same(score(ret[1][i]), score(ret[1][j])))
                        => f[i] < f[j]

\* "AB" is moved before "a" and "b", whose equal scores keep them in order
C17_Witness ==
    /\ Returned("order_results_by_closest_match")
    /\ args = <<"ab", <<[title |-> "a"], [title |-> "AB"], [title |-> "b"]>>>>
    /\ ret[1] = <<[title |-> "AB"], [title |-> "a"], [title |-> "b"]>>

\* a chosen name as it is written: '.pdf' appended when it has no
\* extension, then sanitized and stripped
Finish(name) ==
    str_strip(sanitize(IF splitext_ext(name) = "" THEN name \o ".pdf"
                       ELSE name))

\* C18: the file name is the text after 'filename=' of the
\* Content-Disposition header when that is present and not empty, otherwise
\* the last path segment of the URL, otherwise book_<unix-timestamp>; a
\* name without extension gets '.pdf' before it is sanitized.
C18_FilenameResolutionOrder ==
    Returned("download_book") =>
        /\ \A n \in HeaderNames \ {""} :
            args[2] = <<Disposition(n)>> => ret[1] = Finish(n)
        /\ args[2] \in {NoHeader, <<"inline">>, <<Disposition("")>>} =>
            \A d \in UrlDirs, g \in UrlSegments, t \in UrlTails :
                args[1] = UrlOf(d, g, t) =>
                    ret[1] = IF g # "" THEN Finish(g)
                             ELSE Finish("book_" \o args[3])

\* no header name, the URL's last segment "n" without extension
C18_Witness ==
    /\ Returned("download_book")
    /\ args[1] = "http://cdn.x/f/n?md5=1&key=K"
    /\ args[2] = <<"inline">>
    /\ ret[1] = "n.pdf"

\* character i of the resolved name after the replacement
Replaced(name, i) == IF IsAllowedChar(Ch(name, i)) THEN Ch(name, i) ELSE "_"

\* C19 as claimed: the written name has allowed characters only, and is the
\* resolved name with every other character replaced by '_' and every
\* allowed character kept.
C19_EveryCharKeptOrReplaced ==
    Returned("download_book") =>
        LET name == resolved_filename(args[1], args[2], args[3])
        IN /\ \A i \in 1..Len(ret[1]) : IsAllowedChar(Ch(ret[1], i))
           /\ Len(ret[1]) = Len(name)
           /\ \A i \in 1..Len(name) : Ch(ret[1], i) = Replaced(name, i)

\* C19, amended: the same, except that the spaces at the two ends of the
\* replaced name are removed.
C19_KeptOrReplacedThenStripped ==
    Returned("download_book") =>
        LET name == resolved_filename(args[1], args[2], args[3])
        IN /\ \A i \in 1..Len(ret[1]) : IsAllowedChar(Ch(ret[1], i))
           /\ \E lo \in 1..(Len(name) + 1), hi \in 0..Len(name) :
                /\ Len(ret[1]) = hi - lo + 1
                /\ \A i \in lo..hi : Ch(ret[1], i - lo + 1) = Replaced(name, i)
                /\ \A i \in 1..Len(name) :
                     (i < lo \/ i > hi) => Replaced(name, i) = " "
                /\ lo <= hi => (Replaced(name, lo) # " "
                                /\ Replaced(name, hi) # " ")

\* a header name with a space in front and a question mark
C19_Witness ==
    /\ Returned("download_book")
    /\ args[2] = <<Disposition(" a?.epub")>>
    /\ ret[1] = "a_.epub"

\* C20 as claimed: the header name "My Book: Part 1?.epub" is written as
\* "My_Book__Part_1_.epub".
C20_ExampleSpacesReplaced ==
    (Returned("download_book")
     /\ args[2] = <<Disposition("My Book: Part 1?.epub")>>)
        => ret[1] = "My_Book__Part_1_.epub"

\* C20, amended: the header name "My Book: Part 1?.epub" is written as
\* "My Book_ Part 1_.epub": the space is an allowed character.
C20_ExampleSpacesKept ==
    (Returned("download_book")
     /\ args[2] = <<Disposition("My Book: Part 1?.epub")>>)
        => ret[1] = "My Book_ Part 1_.epub"

C20_Witness ==
    /\ Returned("download_book")
    /\ args[1] = "http://cdn.x/f/b.epub"
    /\ args[2] = <<Disposition("My Book: Part 1?.epub")>>

\* the rows of a table that have at least 9 cells
Wide(raws) == {i \in 1..Len(raws) : raws[i].cells >= 9}

\* C21: parsing never fails on a malformed row: a row with fewer than 9
\* cells is skipped and the rows after it are still parsed, every row with
\* at least 9 cells yields exactly one result in document order, and a row
\* whose title cell has neither a bold element nor a link gets the title
\* "Unknown Title".
C21_ParseSkipsShortRows ==
    Returned("hunt_for_book") =>
        LET raws == args[1]
            at(i) == Cardinality({j \in Wide(raws) : j <= i})
        IN /\ Len(ret[1]) = Cardinality(Wide(raws))
           /\ \A i \in Wide(raws) :
                /\ ret[1][at(i)].mirrors = raws[i].links
                /\ ret[1][at(i)].author = raws[i].author
                /\ ret[1][at(i)].size = raws[i].size
                /\ (raws[i].b = <<>> /\ raws[i].a = <<>>)
                        => ret[1][at(i)].title = "Unknown Title"
                /\ raws[i].b # <<>> => ret[1][at(i)].title = raws[i].b[1]

\* a 3-cell row, then a row with neither <b> nor <a>, then a row with both
C21_Witness ==
    /\ Returned("hunt_for_book")
    /\ Len(args[1]) = 3
    /\ args[1][1].cells = 3
    /\ args[1][2].cells = 10
    /\ args[1][3].b = <<"ab">>
    /\ Len(ret[1]) = 2
    /\ ret[1][1].title = "Unknown Title"
    /\ ret[1][2].title = "ab"

\* C30: for every Content-Disposition value and every URL the path at which
\* download_book writes is a direct child of the download directory: the
\* file name is not empty, has no path separator and is not one of the
\* names '.' and '..' that stand for a directory.
C30_WrittenInsideDownloadDir ==
    Returned("download_book") =>
        /\ ret[1] # ""
        /\ \A i \in 1..Len(ret[1]) : Ch(ret[1], i) \notin {"/", "\\"}
        /\ ret[1] \notin {".", ".."}

(***************************************************************************)
(* Logging: logger.log and logger.set_flask_logger (logger.py:13-46) with  *)
(* app.add_log as the sink (app.py:78-99, 810).  The module is imported    *)
(* and the sink set on one thread, so calls follow one another.            *)
(***************************************************************************)
\* most entries load_recent_logs_from_file puts into app_status['logs']
\* (app.py:191)
MaxLoaded == 98

\* most messages that are logged or added in one run
MaxLogs == 4

\* message and level of a call of logger.log or add_log
LogCalls == {<<"a", "info">>, <<"b", "error">>, <<"a", "warning">>}

\* app.py:101-194: the entries read back from logs/app.log at startup
LoadedLogs ==
    [i \in 1..MaxLoaded |->
        [timestamp |-> 0, level |-> "info", message |-> "old"]]

\* app.py:80-85
LogEntry(message, level, t) ==
    [timestamp |-> t, level |-> level, message |-> message]

\* an add_log that keeps the first 100 entries
add_log_keeps_first(entries, message, level, t) ==
    LET appended == Append(entries, LogEntry(message, level, t))
    IN IF Len(appended) > 100
       THEN SubSeq(appended, 1, 100)
       ELSE appended

\* app.py:78-91: app_status['logs'] after add_log(message, level) at time t
add_log(entries, message, level, t) ==
    LET appended == Append(entries, LogEntry(message, level, t))
    IN IF Len(appended) > 100
       THEN SubSeq(appended, Len(appended) - 100 + 1, Len(appended))
       ELSE appended

\* a flush that starts with the newest entry
flush_newest_first(buffer) ==
    [i \in 1..Len(buffer) |->
        <<buffer[Len(buffer) + 1 - i].message,
          buffer[Len(buffer) + 1 - i].level>>]

\* logger.py:22-23: the calls of the sink that the flush makes, in order
flush(buffer) ==
    [i \in 1..Len(buffer) |-> <<buffer[i].message, buffer[i].level>>]

\* app_status['logs'] after the calls of add_log in calls, the first of
\* them at time t + 1
RECURSIVE add_logs(_, _, _)
add_logs(entries, calls, t) ==
    IF calls = <<>> THEN entries
    ELSE add_logs(add_log(entries, Head(calls)[1], Head(calls)[2], t + 1),
                  Tail(calls), t + 1)

\* the entries that the calls of add_log in calls make
entries_of(calls, t) ==
    [i \in 1..Len(calls) |-> LogEntry(calls[i][1], calls[i][2], t + i)]

\* str.upper
UpperOf ==
    [c \in LowerChars |->
        Ch(UPPER, CHOOSE i \in 1..Len(LOWER) : Ch(LOWER, i) = c)]

RECURSIVE str_upper(_)
str_upper(s) ==
    IF s = "" THEN ""
    ELSE (IF Head(s) \in LowerChars THEN UpperOf[Head(s)] ELSE Head(s))
            \o str_upper(Tail(s))

\* logger.py:35, 74-89: what log prints, and with it what logged_print
\* logs once print is replaced
printed(message, level) ==
    <<"[" \o str_upper(level) \o "] " \o message, "info">>

\* logger.py:35-46: the messages of one call of log, that of its print
\* first when print is logged
log_calls(message, level, print_logged) ==
    IF print_logged THEN <<printed(message, level), <<message, level>>>>
    ELSE <<<<message, level>>>>

\* logger.py:42-46, 85-89: the buffer entries of calls, the first of them
\* made at time t + 1
buffered(calls, t) ==
    [i \in 1..Len(calls) |->
        [message |-> calls[i][1], level |-> calls[i][2], timestamp |-> t + i]]

InitLog ==
    /\ log_buffer = <<>>
    /\ flask_add_log = None
    /\ print_logging = FALSE
    /\ logs \in {<<>>, LoadedLogs}
    /\ tick = 0
    /\ logged = <<>>
    /\ delivered = <<>>
    /\ added = <<>>
    /\ NoPipeline
    /\ ledger = {}
    /\ NoBatch
    /\ AppStatusInit
    /\ NoThreads
    /\ NoCall

\* logger.py:26-46: logger.log(message, level)
LoggerLog ==
    /\ Len(added) + Len(log_buffer) < MaxLogs
    /\ \E c \in LogCalls :
        LET calls == log_calls(c[1], c[2], print_logging)
        IN /\ logged' = Append(logged, c)
           /\ tick' = tick + Len(calls)
           /\ IF flask_add_log # None
              THEN /\ logs' = add_logs(logs, calls, tick)
                   /\ delivered' = delivered \o calls
                   /\ added' = added \o entries_of(calls, tick)
                   /\ UNCHANGED log_buffer
              ELSE /\ log_buffer' = log_buffer \o buffered(calls, tick)
                   /\ UNCHANGED <<logs, delivered, added>>
    /\ UNCHANGED <<flask_add_log, print_logging>>
    /\ UNCHANGED <<pvars, bvars, avars, fvars>>

\* logger.py:16-24: logger.set_flask_logger(add_log)
SetFlaskLogger ==
    /\ flask_add_log' = "add_log"
    /\ logs' = add_logs(logs, flush(log_buffer), tick)
    /\ delivered' = delivered \o flush(log_buffer)
    /\ added' = added \o entries_of(flush(log_buffer), tick)
    /\ tick' = tick + Len(log_buffer)
    /\ log_buffer' = <<>>
    /\ UNCHANGED <<logged, print_logging>>
    /\ UNCHANGED <<pvars, bvars, avars, fvars>>

\* app.py:78-99: the app calls add_log itself
AddLog ==
    /\ Len(added) + Len(log_buffer) < MaxLogs
    /\ \E c \in LogCalls :
        /\ logs' = add_log(logs, c[1], c[2], tick + 1)
        /\ added' = Append(added, LogEntry(c[1], c[2], tick + 1))
    /\ tick' = tick + 1
    /\ UNCHANGED <<log_buffer, flask_add_log, print_logging, logged,
                   delivered>>
    /\ UNCHANGED <<pvars, bvars, avars, fvars>>

\* logger.py:72-93: logger.enable_print_logging()
EnablePrintLogging ==
    /\ print_logging' = TRUE
    /\ UNCHANGED <<log_buffer, flask_add_log, logs, tick, logged, delivered,
                   added>>
    /\ UNCHANGED <<pvars, bvars, avars, fvars>>

NextLog ==
    \/ LoggerLog
    \/ SetFlaskLogger
    \/ AddLog
    \/ EnablePrintLogging

SpecLog == InitLog /\ [][NextLog]_vars

\* message and level of the entries in the buffer
InBuffer ==
    [i \in 1..Len(log_buffer) |->
        <<log_buffer[i].message, log_buffer[i].level>>]

\* the messages among calls that are not the copy of a print
Own(calls) ==
    LET own(c) == c[1] = "" \/ Ch(c[1], 1) # "["
    IN SelectSeq(calls, own)

\* C24: messages logged before set_flask_logger are buffered;
\* set_flask_logger delivers every buffered message to the sink exactly
\* once, in the order logged and with its level, and leaves the buffer
\* empty; every message logged afterwards goes directly to the sink and is
\* not buffered.
C24_BufferedThenDeliveredInOrder ==
    /\ [](flask_add_log = None =>
            /\ delivered = <<>>
            /\ Own(InBuffer) = logged)
    /\ [](flask_add_log # None =>
            /\ log_buffer = <<>>
            /\ Own(delivered) = logged)
    /\ [][(flask_add_log = None /\ flask_add_log' # None) =>
            /\ delivered' = InBuffer
            /\ logged' = logged]_vars

\* two different messages were buffered and flushed, a third went directly
C24_Witness ==
    /\ flask_add_log # None
    /\ Len(logged) = 3
    /\ logged[1] # logged[2]
    /\ Len(added) = 3
    /\ tick = 5
    /\ delivered = logged

\* C27: after any sequence of add_log calls app_status['logs'] holds at
\* most 100 entries, and the entries added are there up to the 100 most
\* recent of them, at the end and in the order they were added.
C27_LogsAreTheLastHundred ==
    /\ Len(logs) <= 100
    /\ LET k == Min({Len(added), 100})
       IN /\ Len(logs) >= k
          /\ \A i \in 1..k :
                logs[Len(logs) - k + i] = added[Len(added) - k + i]

\* four entries were added to 98: the two oldest are gone
C27_Witness ==
    /\ Len(added) = 4
    /\ Len(logs) = 100
    /\ logs[1].timestamp = 0
    /\ logs[96].timestamp = 0
    /\ logs[97] = added[1]
    /\ logs[100] = added[4]

====
